---- MODULE Spec2Model ----
(***************************************************************************)
(* A model of the REAgent browser client (src/app/static/js/app.js): the   *)
(* REAgentApp object, the parts of the page it writes, the durable session *)
(* key and the fetches it has in flight.  Every action is one task of the  *)
(* browser's event loop: an event handler up to its first await, or the    *)
(* continuation of a handler after an await has settled.                   *)
(*                                                                         *)
(* A text is a sequence of tokens (words and whitespace); a JavaScript     *)
(* object is a record whose optional fields may be missing from its        *)
(* DOMAIN.                                                                 *)
(***************************************************************************)
EXTENDS Integers, Sequences, FiniteSets, TLC

\* The number of fetches the page issues in one run of the model.
MaxRequests == 3

\* The prices of the price specification run to MaxPriceSteps times 50,000
\* and, in steps of 250, to 1,000 plus MaxPriceSteps times 250.
MaxPriceSteps == 60

VARIABLES
    localStorage,             \* value under 'reagent_session_id', NoKey when absent
    idSource,                 \* how many ids Date.now()/Math.random() have produced
    sessionId,                \* this.sessionId
    isLoading,                \* this.isLoading
    currentRecommendations,   \* this.currentRecommendations
    currentPreferences,       \* this.currentPreferences
    chatMessages,             \* the children of #chatMessages, in document order
    typingIndicator,          \* #typingIndicator is displayed
    sendBtnDisabled,          \* #sendBtn.disabled
    recommendationCount,      \* text of the #recommendationCount badge
    recommendationsContainer, \* data-property-id of the cards in #recommendationsContainer
    preferencesContainer,     \* the preference items shown in #preferencesContainer
    insightsContainer,        \* what #insightsContainer shows
    activeModals,             \* the modals whose classList has 'active'
    propertyDetails,          \* what #propertyDetails shows
    alerts,                   \* number of alert() dialogs shown
    requests,                 \* the fetches in flight
    requestsIssued            \* number of fetches issued so far

vars == <<localStorage, idSource, sessionId, isLoading, currentRecommendations,
          currentPreferences, chatMessages, typingIndicator, sendBtnDisabled,
          recommendationCount, recommendationsContainer, preferencesContainer,
          insightsContainer, activeModals, propertyDetails, alerts, requests,
          requestsIssued>>

----------------------------------------------------------------------------
(* Values *)

Has(o, f) == f \in DOMAIN o

\* localStorage.getItem returns null for a key that is not stored
NoKey == 0

Whitespace == {" "}

\* What the user can have typed into #messageInput when a send is triggered
Inputs == { <<>>, <<" ">>, <<" ", "flat", " ", "London", " ">> }

WelcomeText == <<"Hello! I'm REAgent">>

ApologyText == <<"Sorry, I encountered an error. Please try again.">>

\* The element index.html and clearChat put first in #chatMessages
WelcomeMessage == [sender |-> "agent", message |-> WelcomeText, welcome |-> TRUE]

\* No preference: the object {}
NoPreferences == [category \in {} |-> category]

PreferenceMaps ==
    { NoPreferences,
      [location |-> "London"],
      [budget |-> "500k", bedrooms |-> "2"] }

\* #insightsContainer as index.html serves it: a comment, nothing shown
NoInsights == [field \in {} |-> field]

\* Parsed bodies of a 2xx answer to GET /api/preferences/{session_id}/insights
InsightsBodies ==
    { [insights |-> "You are looking in London", total_preferences |-> 1,
       average_confidence |-> 80, explicit_preferences |-> 1,
       implicit_preferences |-> 0, preference_categories |-> [location |-> 1]] }

Modals == {"preferencesModal", "propertyModal"}

\* Recommendation entries a server can send: nested under .property or flat,
\* identified by external_id or id; Null is a null entry of the array.
Null == [null |-> TRUE]

RecA == [property |-> [external_id |-> "p1", id |-> "1", price |-> 450000]]
RecB == [property |-> [id |-> "p2"]]
RecC == [id |-> "p3", price |-> 1250000]

\* The ids a caller of showPropertyDetails can pass: the data-property-id of a
\* card, or any other string handed to window.reagentApp.showPropertyDetails
PropertyIds == {"p1", "1", "p2", "p3", "undefined"}

\* #propertyDetails as index.html serves it: nothing shown
NoDetails == [field \in {} |-> field]

\* A price that is undefined or null
NoPrice == -1

\* Reply texts of the agent; the two recommendation payloads each come with
\* a text of their own
ReplyText == <<"Tell me more">>
ReplyOne == <<"Here is one property">>
ReplyTwo == <<"Here are two properties">>

\* Parsed bodies of a 2xx answer to POST /api/chat/message
ChatBodies ==
    { [response |-> ReplyText],
      [response |-> ReplyText, recommendations |-> <<>>, extracted_preferences |-> <<>>],
      [response |-> ReplyOne, recommendations |-> <<RecA>>,
       extracted_preferences |-> <<"location">>],
      [response |-> ReplyTwo, recommendations |-> <<RecB, RecA>>],
      [response |-> ReplyText, recommendations |-> <<RecC, Null>>,
       extracted_preferences |-> <<"budget">>],
      [response |-> ReplyText, extracted_preferences |-> <<"budget">>],
      [response |-> ReplyText, recommendations |-> <<RecC>>],
      [response |-> ReplyText, recommendations |-> <<RecA, RecA>>],
      [recommendations |-> <<RecA>>] }

----------------------------------------------------------------------------
(* Pure helpers *)

RECURSIVE TrimStart(_)
TrimStart(s) ==
    IF s # <<>> /\ Head(s) \in Whitespace THEN TrimStart(Tail(s)) ELSE s

RECURSIVE TrimEnd(_)
TrimEnd(s) ==
    IF s # <<>> /\ s[Len(s)] \in Whitespace
    THEN TrimEnd(SubSeq(s, 1, Len(s) - 1))
    ELSE s

\* String.prototype.trim
trim(s) == TrimEnd(TrimStart(s))

\* 'session_' + Date.now() + '_' + Math.random()...: an id no earlier call
\* produced (the generator is taken to be collision free)
newSessionId(source) == source + 1

\* getOrCreateSessionId without its setItem: the new id is returned and not stored
getOrCreateSessionIdNoStore(storage, source) ==
    IF storage # NoKey
    THEN [id |-> storage, storage |-> storage, source |-> source]
    ELSE [id |-> newSessionId(source),
          storage |-> storage,
          source |-> newSessionId(source)]

\* getOrCreateSessionId generating one id to store and another to return
getOrCreateSessionIdTwoIds(storage, source) ==
    IF storage # NoKey
    THEN [id |-> storage, storage |-> storage, source |-> source]
    ELSE [id |-> newSessionId(newSessionId(source)),
          storage |-> newSessionId(source),
          source |-> newSessionId(newSessionId(source))]

\* getOrCreateSessionId, as a function of the durable key and the id source
getOrCreateSessionId(storage, source) ==
    IF storage # NoKey
    THEN [id |-> storage, storage |-> storage, source |-> source]
    ELSE [id |-> newSessionId(source),
          storage |-> newSessionId(source),
          source |-> newSessionId(source)]

\* A removal that takes the first element of #chatMessages whatever it is
removeFirstChild(chat) == IF chat = <<>> THEN <<>> ELSE Tail(chat)

\* document.querySelector('.welcome-message').remove(): the first such element
RECURSIVE removeWelcome(_)
removeWelcome(chat) ==
    IF chat = <<>> THEN <<>>
    ELSE IF Head(chat).welcome THEN Tail(chat)
    ELSE <<Head(chat)>> \o removeWelcome(Tail(chat))

\* addMessageToChat with the element inserted first instead of appended
addMessageToChatPrepend(chat, message, sender) ==
    LET inserted == <<[sender |-> sender, message |-> message, welcome |-> FALSE]>> \o chat
    IN  IF sender = "user" THEN removeWelcome(inserted) ELSE inserted

\* addMessageToChat without the removal of the welcome message
addMessageToChatKeepsWelcome(chat, message, sender) ==
    Append(chat, [sender |-> sender, message |-> message, welcome |-> FALSE])

\* addMessageToChat for a message that is a string
addMessageToChat(chat, message, sender) ==
    LET appended == Append(chat, [sender |-> sender, message |-> message, welcome |-> FALSE])
    IN  IF sender = "user" THEN removeWelcome(appended) ELSE appended

\* data-property-id of the card updateRecommendations builds for rec
cardPropertyId(rec) ==
    LET property == IF Has(rec, "property") THEN rec.property ELSE rec
    IN  IF Has(property, "external_id") THEN property.external_id
        ELSE IF Has(property, "id") THEN property.id
        ELSE "undefined"

\* The cards forEach has appended when it stops: at the end of the list, or at
\* a null entry, where rec.property throws a TypeError
RECURSIVE renderCards(_)
renderCards(recommendations) ==
    IF recommendations = <<>> \/ Head(recommendations) = Null THEN <<>>
    ELSE <<cardPropertyId(Head(recommendations))>> \o renderCards(Tail(recommendations))

\* updateRecommendations without the write to #recommendationCount
updateRecommendationsStaleBadge(recommendations) ==
    [ currentRecommendations |-> recommendations,
      recommendationCount |-> recommendationCount,
      recommendationsContainer |-> renderCards(recommendations),
      threw |-> \E i \in 1..Len(recommendations) : recommendations[i] = Null ]

\* updateRecommendations adding the new list to the current one
updateRecommendationsMerge(recommendations) ==
    LET merged == currentRecommendations \o recommendations
    IN  [ currentRecommendations |-> merged,
          recommendationCount |-> Len(merged),
          recommendationsContainer |-> renderCards(merged),
          threw |-> \E i \in 1..Len(merged) : merged[i] = Null ]

\* updateRecommendations: the fields it leaves behind and whether it threw
updateRecommendations(recommendations) ==
    [ currentRecommendations |-> recommendations,
      recommendationCount |-> Len(recommendations),
      recommendationsContainer |-> renderCards(recommendations),
      threw |-> \E i \in 1..Len(recommendations) : recommendations[i] = Null ]

\* (price / 1000).toFixed(0) for an integer price: the nearest integer, the
\* larger one at a tie (a half is exact in binary floating point)
toFixed0(price) == (price + 500) \div 1000

\* The number of binary digits of a positive integer
RECURSIVE bitLength(_)
bitLength(n) == IF n = 0 THEN 0 ELSE 1 + bitLength(n \div 2)

\* (r * 2^k) mod 20
RECURSIVE scaleMod20(_, _)
scaleMod20(r, k) == IF k = 0 THEN r % 20 ELSE scaleMod20((2 * r) % 20, k - 1)

\* (price / 1000000).toFixed(1) for an integer price of a million or more, in
\* tenths. toFixed rounds the exact value of the double that the division
\* produced, the larger candidate at a tie. Off a decimal half the double
\* rounds as the quotient does; at a decimal half r/20 (r odd) the double is
\* the quotient rounded to 53 significant bits, and lies at or above the half
\* exactly when the remainder of r * 2^k by 20 is 0 (no rounding) or more
\* than 10 (rounded up), for k the number of fraction bits of the double.
toFixed1(price) ==
    LET tenths == price \div 100000
        rest == price % 100000
        r == (price % 1000000) \div 50000
        k == 53 - bitLength(price \div 1000000)
    IN  IF rest > 50000 THEN tenths + 1
        ELSE IF rest < 50000 THEN tenths
        ELSE IF scaleMod20(r, k) \in {0, 12, 16} THEN tenths + 1
        ELSE tenths

\* formatPrice with Math.floor in place of toFixed
formatPriceFloor(price) ==
    IF price = NoPrice \/ price = 0 THEN [text |-> "POA"]
    ELSE IF price >= 1000000
         THEN [currency |-> "GBP", millions |-> price \div 1000000,
               tenths |-> (price \div 100000) % 10, suffix |-> "M"]
    ELSE IF price >= 1000
         THEN [currency |-> "GBP", thousands |-> price \div 1000, suffix |-> "k"]
    ELSE [currency |-> "GBP", amount |-> price]

\* formatPrice for an integer price: 'POA', or the pound sign followed by the
\* amount, by the thousands and 'k', or by the millions, a point, the tenths
\* and 'M'
formatPrice(price) ==
    IF price = NoPrice \/ price = 0 THEN [text |-> "POA"]
    ELSE IF price >= 1000000
         THEN [currency |-> "GBP", millions |-> toFixed1(price) \div 10,
               tenths |-> toFixed1(price) % 10, suffix |-> "M"]
    ELSE IF price >= 1000
         THEN [currency |-> "GBP", thousands |-> toFixed0(price), suffix |-> "k"]
    ELSE [currency |-> "GBP", amount |-> price]

\* rec.property?.external_id || rec.property?.id of a non-null entry;
\* "" stands for undefined, which no propertyId equals
findKey(rec) ==
    IF ~Has(rec, "property") THEN ""
    ELSE IF Has(rec.property, "external_id") THEN rec.property.external_id
    ELSE IF Has(rec.property, "id") THEN rec.property.id
    ELSE ""

\* find returning the first entry whatever its id
RECURSIVE findFirst(_, _)
findFirst(recommendations, propertyId) ==
    IF recommendations = <<>> THEN [found |-> FALSE, threw |-> FALSE]
    ELSE IF Head(recommendations) = Null THEN [found |-> FALSE, threw |-> TRUE]
    ELSE [found |-> TRUE, threw |-> FALSE, rec |-> Head(recommendations)]

\* this.currentRecommendations.find(...) of showPropertyDetails: the first
\* entry whose key is propertyId; a null entry met before it throws
RECURSIVE find(_, _)
find(recommendations, propertyId) ==
    IF recommendations = <<>> THEN [found |-> FALSE, threw |-> FALSE]
    ELSE IF Head(recommendations) = Null THEN [found |-> FALSE, threw |-> TRUE]
    ELSE IF findKey(Head(recommendations)) = propertyId
         THEN [found |-> TRUE, threw |-> FALSE, rec |-> Head(recommendations)]
    ELSE find(Tail(recommendations), propertyId)

\* What showPropertyDetails writes into #propertyDetails for the entry found
propertyDetailsOf(rec) ==
    LET prop == IF Has(rec, "property") THEN rec.property ELSE rec
    IN  [property |-> prop,
         price |-> formatPrice(IF Has(prop, "price") THEN prop.price ELSE NoPrice)]

\* showPropertyDetails: #propertyDetails and the active modals it leaves
showPropertyDetails(recommendations, propertyId, details, modals) ==
    LET property == find(recommendations, propertyId)
    IN  IF property.found
        THEN [propertyDetails |-> propertyDetailsOf(property.rec),
              activeModals |-> modals \cup {"propertyModal"}]
        ELSE [propertyDetails |-> details, activeModals |-> modals]

\* updatePreferencesDisplay: one item per entry, the empty state for {}
updatePreferencesDisplay(preferences) == preferences

\* The guard of sendMessage without its isLoading test
sendRejectedEmptyOnly(message, loading) == message = <<>>

\* The guard of sendMessage without its test of the message
sendRejectedLoadingOnly(message, loading) == loading

\* The guard of sendMessage: the handler returns at once when it holds
sendRejected(message, loading) == message = <<>> \/ loading

\* The fetch of sendMessage
chatRequest(n, sid, message) ==
    [id |-> n, op |-> "chat", phase |-> "fetch", sid |-> sid, message |-> message]

\* A fetch that names the session id the page was loaded with
sessionRequestInitialId(n, op, sid) == [id |-> n, op |-> op, sid |-> 1]

\* The fetch of loadPreferences, loadConversationHistory, showPreferencesModal
\* and clearChat: the session id is part of the URL
sessionRequest(n, op, sid) == [id |-> n, op |-> op, sid |-> sid]

----------------------------------------------------------------------------
(* The page after DOMContentLoaded: index.html as served, the constructor  *)
(* run, the history fetch of loadConversationHistory in flight.            *)

Init ==
    \E stored \in {NoKey, 1} :
        LET source == IF stored = NoKey THEN 0 ELSE stored
            got == getOrCreateSessionId(stored, source)
        IN  /\ localStorage = got.storage
            /\ idSource = got.source
            /\ sessionId = got.id
            /\ isLoading = FALSE
            /\ currentRecommendations = <<>>
            /\ currentPreferences = NoPreferences
            /\ chatMessages = <<WelcomeMessage>>
            /\ typingIndicator = FALSE
            /\ sendBtnDisabled = FALSE
            /\ recommendationCount = 0
            /\ recommendationsContainer = <<>>
            /\ preferencesContainer = NoPreferences
            /\ insightsContainer = NoInsights
            /\ activeModals = {}
            /\ propertyDetails = NoDetails
            /\ alerts = 0
            /\ requests = {sessionRequest(1, "history", got.id)}
            /\ requestsIssued = 1

----------------------------------------------------------------------------
(* sendMessage *)

\* Enter, the send button or a starter button, with input in #messageInput
SendMessage(input) ==
    LET message == trim(input) IN
    IF sendRejected(message, isLoading)
    THEN UNCHANGED vars
    ELSE /\ requestsIssued < MaxRequests
         /\ chatMessages' = addMessageToChat(chatMessages, message, "user")
         /\ typingIndicator' = TRUE
         /\ isLoading' = TRUE
         /\ sendBtnDisabled' = TRUE
         /\ requestsIssued' = requestsIssued + 1
         /\ requests' = requests \cup {chatRequest(requestsIssued + 1, sessionId, message)}
         /\ UNCHANGED <<localStorage, idSource, sessionId, currentRecommendations,
                        currentPreferences, recommendationCount,
                        recommendationsContainer, preferencesContainer, alerts,
                        insightsContainer, activeModals, propertyDetails>>

\* The catch block of sendMessage without its hideTypingIndicator
sendMessageCatchKeepsFlag(chat) ==
    /\ UNCHANGED <<typingIndicator, isLoading, sendBtnDisabled>>
    /\ chatMessages' = addMessageToChat(chat, ApologyText, "agent")

\* The catch block of sendMessage clearing the flag and the indicator but
\* leaving #sendBtn disabled
sendMessageCatchKeepsButton(chat) ==
    /\ typingIndicator' = FALSE
    /\ isLoading' = FALSE
    /\ UNCHANGED sendBtnDisabled
    /\ chatMessages' = addMessageToChat(chat, ApologyText, "agent")

\* The catch block of sendMessage, entered with transcript chat
sendMessageCatch(chat) ==
    /\ typingIndicator' = FALSE
    /\ isLoading' = FALSE
    /\ sendBtnDisabled' = FALSE
    /\ chatMessages' = addMessageToChat(chat, ApologyText, "agent")

\* fetch rejects (no connection): catch
ChatFetchReject(r) ==
    /\ r \in requests /\ r.op = "chat" /\ r.phase = "fetch"
    /\ requests' = requests \ {r}
    /\ sendMessageCatch(chatMessages)
    /\ UNCHANGED <<localStorage, idSource, sessionId, currentRecommendations,
                   currentPreferences, recommendationCount, recommendationsContainer,
                   preferencesContainer, alerts, requestsIssued,
                   insightsContainer, activeModals, propertyDetails>>

\* sendMessage with a retry: a response that is not ok issues the fetch again
ChatFetchResolveRetry(r, ok) ==
    /\ r \in requests /\ r.op = "chat" /\ r.phase = "fetch"
    /\ IF ok
       THEN /\ requests' = (requests \ {r}) \cup {[r EXCEPT !.phase = "json"]}
            /\ UNCHANGED requestsIssued
       ELSE /\ requestsIssued < MaxRequests
            /\ requestsIssued' = requestsIssued + 1
            /\ requests' = (requests \ {r}) \cup
                   {chatRequest(requestsIssued + 1, sessionId, r.message)}
    /\ UNCHANGED <<localStorage, idSource, sessionId, isLoading, currentRecommendations,
                   currentPreferences, chatMessages, typingIndicator, sendBtnDisabled,
                   recommendationCount, recommendationsContainer, preferencesContainer,
                   insightsContainer, activeModals, alerts, propertyDetails>>

\* sendMessage calling hideTypingIndicator as soon as the response is there,
\* before it awaits json()
ChatFetchResolveHidesIndicator(r, ok) ==
    /\ r \in requests /\ r.op = "chat" /\ r.phase = "fetch"
    /\ IF ok
       THEN /\ requests' = (requests \ {r}) \cup {[r EXCEPT !.phase = "json"]}
            /\ typingIndicator' = FALSE
            /\ isLoading' = FALSE
            /\ sendBtnDisabled' = FALSE
            /\ UNCHANGED chatMessages
       ELSE /\ requests' = requests \ {r}
            /\ sendMessageCatch(chatMessages)
    /\ UNCHANGED <<localStorage, idSource, sessionId, currentRecommendations,
                   currentPreferences, recommendationCount, recommendationsContainer,
                   preferencesContainer, alerts, requestsIssued,
                   insightsContainer, activeModals, propertyDetails>>

\* fetch resolves with a response: not ok throws into catch, ok awaits json()
ChatFetchResolve(r, ok) ==
    /\ r \in requests /\ r.op = "chat" /\ r.phase = "fetch"
    /\ IF ok
       THEN /\ requests' = (requests \ {r}) \cup {[r EXCEPT !.phase = "json"]}
            /\ UNCHANGED <<isLoading, typingIndicator, sendBtnDisabled, chatMessages>>
       ELSE /\ requests' = requests \ {r}
            /\ sendMessageCatch(chatMessages)
    /\ UNCHANGED <<localStorage, idSource, sessionId, currentRecommendations,
                   currentPreferences, recommendationCount, recommendationsContainer,
                   preferencesContainer, alerts, requestsIssued,
                   insightsContainer, activeModals, propertyDetails>>

\* response.json() rejects (the body is not JSON): catch
ChatJsonReject(r) ==
    /\ r \in requests /\ r.op = "chat" /\ r.phase = "json"
    /\ requests' = requests \ {r}
    /\ sendMessageCatch(chatMessages)
    /\ UNCHANGED <<localStorage, idSource, sessionId, currentRecommendations,
                   currentPreferences, recommendationCount, recommendationsContainer,
                   preferencesContainer, alerts, requestsIssued,
                   insightsContainer, activeModals, propertyDetails>>

\* The test of recommendations without its length check
hasRecommendationsKey(data) == Has(data, "recommendations")

\* data carries a non-empty recommendations array
hasRecommendations(data) ==
    Has(data, "recommendations") /\ Len(data.recommendations) > 0

\* The test of extracted_preferences without its length check
hasExtractedPreferencesKey(data) == Has(data, "extracted_preferences")

\* data carries a non-empty extracted_preferences array
hasExtractedPreferences(data) ==
    Has(data, "extracted_preferences") /\ Len(data.extracted_preferences) > 0

\* The statement of the try block at which processing data throws, "none" when
\* it runs to its end: formatMessage needs a string, forEach stops at null
sendMessageThrowsAt(data) ==
    IF ~Has(data, "response") THEN "reply"
    ELSE IF hasRecommendations(data) /\ updateRecommendations(data.recommendations).threw
    THEN "recommendations"
    ELSE "none"

\* response.json() resolves with data: the rest of the try block, and the
\* catch block when a statement of it throws
ChatJsonResolve(r, data) ==
    /\ r \in requests /\ r.op = "chat" /\ r.phase = "json"
    /\ LET at == sendMessageThrowsAt(data)
           replied == IF at = "reply" THEN chatMessages
                      ELSE addMessageToChat(chatMessages, data.response, "agent")
           replace == at # "reply" /\ hasRecommendations(data)
           updated == updateRecommendations(data.recommendations)
           refresh == at = "none" /\ hasExtractedPreferences(data)
       IN  /\ IF at = "none"
              THEN /\ typingIndicator' = FALSE
                   /\ isLoading' = FALSE
                   /\ sendBtnDisabled' = FALSE
                   /\ chatMessages' = replied
              ELSE sendMessageCatch(replied)
           /\ IF replace
              THEN /\ currentRecommendations' = updated.currentRecommendations
                   /\ recommendationCount' = updated.recommendationCount
                   /\ recommendationsContainer' = updated.recommendationsContainer
              ELSE UNCHANGED <<currentRecommendations, recommendationCount,
                               recommendationsContainer>>
           /\ IF refresh
              THEN /\ requestsIssued < MaxRequests
                   /\ requestsIssued' = requestsIssued + 1
                   /\ requests' = (requests \ {r}) \cup
                          {sessionRequest(requestsIssued + 1, "preferences", sessionId)}
              ELSE /\ requests' = requests \ {r}
                   /\ UNCHANGED requestsIssued
    /\ UNCHANGED <<localStorage, idSource, sessionId, currentPreferences,
                   preferencesContainer, alerts,
                   insightsContainer, activeModals, propertyDetails>>

----------------------------------------------------------------------------
(* loadPreferences *)

\* Parsed bodies of a 2xx answer to GET /api/preferences/{session_id}
PreferencesBodies == { [preferences |-> m] : m \in PreferenceMaps }

\* Why a fetch ends in the catch block of its handler: no connection, a status
\* that is not 2xx, a body that is not JSON
Failures == {"connection", "status", "body"}

\* loadPreferences merging the answer into the map it holds, as
\* Object.assign(this.currentPreferences, data.preferences) would
LoadPreferencesResolveMerge(r, data) ==
    /\ r \in requests /\ r.op = "preferences"
    /\ requests' = requests \ {r}
    /\ LET merged == [category \in DOMAIN currentPreferences \cup DOMAIN data.preferences |->
                         IF category \in DOMAIN data.preferences
                         THEN data.preferences[category]
                         ELSE currentPreferences[category]]
       IN  /\ currentPreferences' = merged
           /\ preferencesContainer' = updatePreferencesDisplay(merged)
    /\ UNCHANGED <<localStorage, idSource, sessionId, isLoading, currentRecommendations,
                   chatMessages, typingIndicator, sendBtnDisabled, recommendationCount,
                   recommendationsContainer, alerts, requestsIssued,
                   insightsContainer, activeModals, propertyDetails>>

\* fetch and json() resolve with data: the store and its display are replaced
LoadPreferencesResolve(r, data) ==
    /\ r \in requests /\ r.op = "preferences"
    /\ requests' = requests \ {r}
    /\ currentPreferences' = data.preferences
    /\ preferencesContainer' = updatePreferencesDisplay(data.preferences)
    /\ UNCHANGED <<localStorage, idSource, sessionId, isLoading, currentRecommendations,
                   chatMessages, typingIndicator, sendBtnDisabled, recommendationCount,
                   recommendationsContainer, alerts, requestsIssued,
                   insightsContainer, activeModals, propertyDetails>>

\* The catch block of loadPreferences: console.error only
LoadPreferencesFail(r, failure) ==
    /\ r \in requests /\ r.op = "preferences"
    /\ failure \in Failures
    /\ requests' = requests \ {r}
    /\ UNCHANGED <<localStorage, idSource, sessionId, isLoading, currentRecommendations,
                   currentPreferences, chatMessages, typingIndicator, sendBtnDisabled,
                   recommendationCount, recommendationsContainer, preferencesContainer,
                   alerts, requestsIssued,
                   insightsContainer, activeModals, propertyDetails>>

----------------------------------------------------------------------------
(* loadConversationHistory *)

UserEntry == [message_type |-> "user", message |-> <<"studio">>]
AgentEntry == [message_type |-> "agent", response |-> <<"Which city?">>]

\* Parsed bodies of a 2xx answer to GET /api/chat/history/{session_id}
HistoryBodies ==
    { [conversations |-> <<>>],
      [conversations |-> <<UserEntry, [message_type |-> "system"], AgentEntry>>,
       user_preferences |-> [location |-> "London"]],
      [conversations |-> <<UserEntry, [message_type |-> "agent"]>>,
       user_preferences |-> [location |-> "London"]] }

\* The forEach of loadConversationHistory running from the last entry to the first
RECURSIVE replayConversationsNewestFirst(_, _)
replayConversationsNewestFirst(chat, conversations) ==
    IF conversations = <<>> THEN [chat |-> chat, threw |-> FALSE]
    ELSE LET conv == conversations[Len(conversations)]
             rest == SubSeq(conversations, 1, Len(conversations) - 1)
         IN  IF conv.message_type = "user"
             THEN IF Has(conv, "message")
                  THEN replayConversationsNewestFirst(
                           addMessageToChat(chat, conv.message, "user"), rest)
                  ELSE [chat |-> chat, threw |-> TRUE]
             ELSE IF conv.message_type = "agent"
             THEN IF Has(conv, "response")
                  THEN replayConversationsNewestFirst(
                           addMessageToChat(chat, conv.response, "agent"), rest)
                  ELSE [chat |-> chat, threw |-> TRUE]
             ELSE replayConversationsNewestFirst(chat, rest)

\* The forEach of loadConversationHistory over conversations, from transcript
\* chat: the transcript it leaves and whether addMessageToChat threw on an
\* entry without its text
RECURSIVE replayConversations(_, _)
replayConversations(chat, conversations) ==
    IF conversations = <<>> THEN [chat |-> chat, threw |-> FALSE]
    ELSE LET conv == Head(conversations) IN
         IF conv.message_type = "user"
         THEN IF Has(conv, "message")
              THEN replayConversations(addMessageToChat(chat, conv.message, "user"),
                                       Tail(conversations))
              ELSE [chat |-> chat, threw |-> TRUE]
         ELSE IF conv.message_type = "agent"
         THEN IF Has(conv, "response")
              THEN replayConversations(addMessageToChat(chat, conv.response, "agent"),
                                       Tail(conversations))
              ELSE [chat |-> chat, threw |-> TRUE]
         ELSE replayConversations(chat, Tail(conversations))

\* fetch and json() resolve with data
LoadHistoryResolve(r, data) ==
    /\ r \in requests /\ r.op = "history"
    /\ requests' = requests \ {r}
    /\ LET replays == Has(data, "conversations") /\ Len(data.conversations) > 0
           replayed == IF replays
                       THEN replayConversations(removeWelcome(chatMessages),
                                                data.conversations)
                       ELSE [chat |-> chatMessages, threw |-> FALSE]
           preferences == IF Has(data, "user_preferences")
                          THEN data.user_preferences
                          ELSE NoPreferences
       IN  /\ chatMessages' = replayed.chat
           /\ IF replayed.threw
              THEN UNCHANGED <<currentPreferences, preferencesContainer>>
              ELSE /\ currentPreferences' = preferences
                   /\ preferencesContainer' = updatePreferencesDisplay(preferences)
    /\ UNCHANGED <<localStorage, idSource, sessionId, isLoading, currentRecommendations,
                   typingIndicator, sendBtnDisabled, recommendationCount,
                   recommendationsContainer, alerts, requestsIssued,
                   insightsContainer, activeModals, propertyDetails>>

\* The catch block of loadConversationHistory: console.error only
LoadHistoryFail(r, failure) ==
    /\ r \in requests /\ r.op = "history"
    /\ failure \in Failures
    /\ requests' = requests \ {r}
    /\ UNCHANGED <<localStorage, idSource, sessionId, isLoading, currentRecommendations,
                   currentPreferences, chatMessages, typingIndicator, sendBtnDisabled,
                   recommendationCount, recommendationsContainer, preferencesContainer,
                   alerts, requestsIssued,
                   insightsContainer, activeModals, propertyDetails>>

----------------------------------------------------------------------------
(* clearChat *)

\* clearChat without its confirm(): the DELETE is issued whatever the answer
ClearChatUnconfirmed(confirmed) ==
    /\ requestsIssued < MaxRequests
    /\ requestsIssued' = requestsIssued + 1
    /\ requests' = requests \cup {sessionRequest(requestsIssued + 1, "clear", sessionId)}
    /\ UNCHANGED <<localStorage, idSource, sessionId, isLoading,
                   currentRecommendations, currentPreferences, chatMessages,
                   typingIndicator, sendBtnDisabled, recommendationCount,
                   recommendationsContainer, preferencesContainer, alerts,
                   insightsContainer, activeModals, propertyDetails>>

\* The click on #clearChatBtn and the answer to confirm(): declined returns,
\* confirmed issues the DELETE for the session that is current now
ClearChat(confirmed) ==
    IF ~confirmed
    THEN UNCHANGED vars
    ELSE /\ requestsIssued < MaxRequests
         /\ requestsIssued' = requestsIssued + 1
         /\ requests' = requests \cup {sessionRequest(requestsIssued + 1, "clear", sessionId)}
         /\ UNCHANGED <<localStorage, idSource, sessionId, isLoading,
                        currentRecommendations, currentPreferences, chatMessages,
                        typingIndicator, sendBtnDisabled, recommendationCount,
                        recommendationsContainer, preferencesContainer, alerts,
                        insightsContainer, activeModals, propertyDetails>>

\* localStorage.removeItem('reagent_session_id')
removeItem(storage) == NoKey

\* clearChat resetting the page and the session whatever the response
ClearChatResolveRegardless(r, ok) ==
    /\ r \in requests /\ r.op = "clear"
    /\ requests' = requests \ {r}
    /\ LET got == getOrCreateSessionId(removeItem(localStorage), idSource)
       IN  /\ chatMessages' = <<WelcomeMessage>>
           /\ currentRecommendations' = <<>>
           /\ recommendationCount' = 0
           /\ recommendationsContainer' = <<>>
           /\ preferencesContainer' = updatePreferencesDisplay(NoPreferences)
           /\ localStorage' = got.storage
           /\ idSource' = got.source
           /\ sessionId' = got.id
    /\ alerts' = IF ok THEN alerts ELSE alerts + 1
    /\ UNCHANGED <<isLoading, currentPreferences, typingIndicator, sendBtnDisabled,
                   insightsContainer, activeModals, requestsIssued, propertyDetails>>

\* clearChat whose failure path also drops the durable key and takes a new id
ClearChatResolveDropsKey(r, ok) ==
    /\ r \in requests /\ r.op = "clear"
    /\ requests' = requests \ {r}
    /\ LET got == getOrCreateSessionId(removeItem(localStorage), idSource)
       IN  /\ localStorage' = got.storage
           /\ idSource' = got.source
           /\ sessionId' = got.id
    /\ IF ok
       THEN /\ chatMessages' = <<WelcomeMessage>>
            /\ currentRecommendations' = <<>>
            /\ recommendationCount' = 0
            /\ recommendationsContainer' = <<>>
            /\ preferencesContainer' = updatePreferencesDisplay(NoPreferences)
            /\ UNCHANGED alerts
       ELSE /\ alerts' = alerts + 1
            /\ UNCHANGED <<currentRecommendations, chatMessages, recommendationCount,
                           recommendationsContainer, preferencesContainer>>
    /\ UNCHANGED <<isLoading, currentPreferences, typingIndicator, sendBtnDisabled,
                   insightsContainer, activeModals, requestsIssued, propertyDetails>>

\* The DELETE resolves with a response: ok resets the page and the session,
\* anything else throws into the catch block
ClearChatResolve(r, ok) ==
    /\ r \in requests /\ r.op = "clear"
    /\ requests' = requests \ {r}
    /\ IF ok
       THEN LET cleared == updateRecommendations(<<>>)
                got == getOrCreateSessionId(removeItem(localStorage), idSource)
            IN  /\ chatMessages' = <<WelcomeMessage>>
                /\ currentRecommendations' = cleared.currentRecommendations
                /\ recommendationCount' = cleared.recommendationCount
                /\ recommendationsContainer' = cleared.recommendationsContainer
                /\ preferencesContainer' = updatePreferencesDisplay(NoPreferences)
                /\ localStorage' = got.storage
                /\ idSource' = got.source
                /\ sessionId' = got.id
                /\ UNCHANGED alerts
       ELSE /\ alerts' = alerts + 1
            /\ UNCHANGED <<localStorage, idSource, sessionId, currentRecommendations,
                           chatMessages, recommendationCount, recommendationsContainer,
                           preferencesContainer,
                   insightsContainer, activeModals>>
    /\ UNCHANGED <<isLoading, currentPreferences, typingIndicator, sendBtnDisabled,
                   insightsContainer, activeModals, requestsIssued, propertyDetails>>

\* clearChat with an empty catch block: no alert
ClearChatRejectSilently(r) ==
    /\ r \in requests /\ r.op = "clear"
    /\ requests' = requests \ {r}
    /\ UNCHANGED <<localStorage, idSource, sessionId, isLoading, currentRecommendations,
                   currentPreferences, chatMessages, typingIndicator, sendBtnDisabled,
                   recommendationCount, recommendationsContainer, preferencesContainer,
                   insightsContainer, activeModals, alerts, requestsIssued,
                   propertyDetails>>

\* The DELETE rejects (no connection): the catch block
ClearChatReject(r) ==
    /\ r \in requests /\ r.op = "clear"
    /\ requests' = requests \ {r}
    /\ alerts' = alerts + 1
    /\ UNCHANGED <<localStorage, idSource, sessionId, isLoading, currentRecommendations,
                   currentPreferences, chatMessages, typingIndicator, sendBtnDisabled,
                   recommendationCount, recommendationsContainer, preferencesContainer,
                   requestsIssued, insightsContainer, activeModals, propertyDetails>>

----------------------------------------------------------------------------
(* The preferences modal *)

\* The fetch of showPreferencesModal
ShowPreferencesModal ==
    /\ requestsIssued < MaxRequests
    /\ requestsIssued' = requestsIssued + 1
    /\ requests' = requests \cup {sessionRequest(requestsIssued + 1, "insights", sessionId)}
    /\ UNCHANGED <<localStorage, idSource, sessionId, isLoading, currentRecommendations,
                   currentPreferences, chatMessages, typingIndicator, sendBtnDisabled,
                   recommendationCount, recommendationsContainer, preferencesContainer,
                   insightsContainer, activeModals, alerts, propertyDetails>>

\* showModal
showModal(active, modalId) == active \cup {modalId}

\* hideModal
hideModal(active, modalId) == active \ {modalId}

\* fetch and json() resolve with data: displayPreferenceInsights, showModal
InsightsResolve(r, data) ==
    /\ r \in requests /\ r.op = "insights"
    /\ requests' = requests \ {r}
    /\ insightsContainer' = data
    /\ activeModals' = showModal(activeModals, "preferencesModal")
    /\ UNCHANGED <<localStorage, idSource, sessionId, isLoading, currentRecommendations,
                   currentPreferences, chatMessages, typingIndicator, sendBtnDisabled,
                   recommendationCount, recommendationsContainer, preferencesContainer,
                   alerts, requestsIssued, propertyDetails>>

\* A catch block of showPreferencesModal that calls showModal all the same
InsightsFailOpensModal(r, failure) ==
    /\ r \in requests /\ r.op = "insights"
    /\ failure \in Failures
    /\ requests' = requests \ {r}
    /\ activeModals' = showModal(activeModals, "preferencesModal")
    /\ UNCHANGED <<localStorage, idSource, sessionId, isLoading, currentRecommendations,
                   currentPreferences, chatMessages, typingIndicator, sendBtnDisabled,
                   recommendationCount, recommendationsContainer, preferencesContainer,
                   insightsContainer, alerts, requestsIssued, propertyDetails>>

\* The catch block of showPreferencesModal: console.error only
InsightsFail(r, failure) ==
    /\ r \in requests /\ r.op = "insights"
    /\ failure \in Failures
    /\ requests' = requests \ {r}
    /\ UNCHANGED <<localStorage, idSource, sessionId, isLoading, currentRecommendations,
                   currentPreferences, chatMessages, typingIndicator, sendBtnDisabled,
                   recommendationCount, recommendationsContainer, preferencesContainer,
                   insightsContainer, activeModals, alerts, requestsIssued,
                   propertyDetails>>

\* The close button of a modal that is shown, or a click on its backdrop
HideModal(modalId) ==
    /\ modalId \in activeModals
    /\ activeModals' = hideModal(activeModals, modalId)
    /\ UNCHANGED <<localStorage, idSource, sessionId, isLoading, currentRecommendations,
                   currentPreferences, chatMessages, typingIndicator, sendBtnDisabled,
                   recommendationCount, recommendationsContainer, preferencesContainer,
                   insightsContainer, alerts, requests, requestsIssued, propertyDetails>>

----------------------------------------------------------------------------
(* showPropertyDetails, from a click on a property card or called directly *)

ShowPropertyDetails(propertyId) ==
    LET shown == showPropertyDetails(currentRecommendations, propertyId,
                                     propertyDetails, activeModals)
    IN  /\ propertyDetails' = shown.propertyDetails
        /\ activeModals' = shown.activeModals
        /\ UNCHANGED <<localStorage, idSource, sessionId, isLoading,
                       currentRecommendations, currentPreferences, chatMessages,
                       typingIndicator, sendBtnDisabled, recommendationCount,
                       recommendationsContainer, preferencesContainer,
                       insightsContainer, alerts, requests, requestsIssued>>

----------------------------------------------------------------------------

Next ==
    \/ \E input \in Inputs : SendMessage(input)
    \/ \E r \in requests : ChatFetchReject(r)
    \/ \E r \in requests, ok \in BOOLEAN : ChatFetchResolve(r, ok)
    \/ \E r \in requests : ChatJsonReject(r)
    \/ \E r \in requests, data \in ChatBodies : ChatJsonResolve(r, data)
    \/ \E r \in requests, data \in PreferencesBodies : LoadPreferencesResolve(r, data)
    \/ \E r \in requests, failure \in Failures : LoadPreferencesFail(r, failure)
    \/ \E r \in requests, data \in HistoryBodies : LoadHistoryResolve(r, data)
    \/ \E r \in requests, failure \in Failures : LoadHistoryFail(r, failure)
    \/ \E confirmed \in BOOLEAN : ClearChat(confirmed)
    \/ \E r \in requests, ok \in BOOLEAN : ClearChatResolve(r, ok)
    \/ \E r \in requests : ClearChatReject(r)
    \/ ShowPreferencesModal
    \/ \E r \in requests, data \in InsightsBodies : InsightsResolve(r, data)
    \/ \E r \in requests, failure \in Failures : InsightsFail(r, failure)
    \/ \E modalId \in Modals : HideModal(modalId)
    \/ \E propertyId \in PropertyIds : ShowPropertyDetails(propertyId)

Spec == Init /\ [][Next]_vars

----------------------------------------------------------------------------
(* The page with one priced recommendation on display: what formatPrice    *)
(* makes of each price, through showPropertyDetails.                       *)

\* The prices a recommendation can carry, NoPrice for none
PriceInputs ==
    {NoPrice, 0, 1, 999, 1000, 1499, 1500, 1501, 999499, 999500, 999999}
        \cup {50000 * i : i \in 0..MaxPriceSteps}
        \cup {1000 + 250 * i : i \in 0..MaxPriceSteps}

\* The recommendation of property p2 with the given price
PricedRec(price) ==
    IF price = NoPrice
    THEN [property |-> [id |-> "p2"]]
    ELSE [property |-> [id |-> "p2", price |-> price]]

\* The page after the history came back empty and one turn delivered a
\* single recommendation
PriceInit ==
    \E price \in PriceInputs :
        LET updated == updateRecommendations(<<PricedRec(price)>>)
        IN  /\ localStorage = 1
            /\ idSource = 1
            /\ sessionId = 1
            /\ isLoading = FALSE
            /\ currentRecommendations = updated.currentRecommendations
            /\ currentPreferences = NoPreferences
            /\ chatMessages =
                   addMessageToChat(
                       addMessageToChat(<<WelcomeMessage>>, <<"flat", " ", "London">>, "user"),
                       ReplyText, "agent")
            /\ typingIndicator = FALSE
            /\ sendBtnDisabled = FALSE
            /\ recommendationCount = updated.recommendationCount
            /\ recommendationsContainer = updated.recommendationsContainer
            /\ preferencesContainer = NoPreferences
            /\ insightsContainer = NoInsights
            /\ activeModals = {}
            /\ propertyDetails = NoDetails
            /\ alerts = 0
            /\ requests = {}
            /\ requestsIssued = 2

\* Clicks on the card and on the close button of the property modal
PriceNext ==
    \/ \E propertyId \in PropertyIds : ShowPropertyDetails(propertyId)
    \/ \E modalId \in Modals : HideModal(modalId)

PriceSpec == PriceInit /\ [][PriceNext]_vars

\* Some continuation of an outstanding sendMessage runs
ChatSettles ==
    \E r \in requests :
        \/ ChatFetchReject(r)
        \/ \E ok \in BOOLEAN : ChatFetchResolve(r, ok)
        \/ ChatJsonReject(r)
        \/ \E data \in ChatBodies : ChatJsonResolve(r, data)

\* Every fetch of sendMessage, and every json() of its response, settles
FairSpec == Spec /\ WF_vars(ChatSettles)

----------------------------------------------------------------------------
(* Properties *)

ChatRequests == {r \in requests : r.op = "chat"}

Last(s) == s[Len(s)]

\* The request r is issued in this step
Issued(r) == r \in requests' /\ r.id > requestsIssued

\* The handler waiting for r runs to its end in this step
Completes(r) == r \in requests /\ \A q \in requests' : q.id # r.id

\* The entry addMessageToChat builds
Entry(sender, message) == [sender |-> sender, message |-> message, welcome |-> FALSE]

\* C1: at most one chat request is outstanding in every reachable state, and a
\* sendMessage invoked while isLoading is true changes neither the transcript
\* nor the requests in flight.
C1_SingleFlight ==
    /\ [](Cardinality(ChatRequests) <= 1)
    /\ [][\A input \in Inputs :
            (isLoading /\ SendMessage(input)) =>
                UNCHANGED <<chatMessages, requests, requestsIssued>>]_vars

\* C1 witness: a send is outstanding, its user message is the only user entry,
\* and the model would still allow a further request
C1_Witness ==
    /\ isLoading
    /\ Cardinality(ChatRequests) = 1
    /\ requestsIssued < MaxRequests
    /\ Cardinality({i \in 1..Len(chatMessages) : chatMessages[i].sender = "user"}) = 1

\* C2: the success response of a send that was issued under a session id that
\* a reset has since replaced changes neither the recommendation store nor the
\* preference store and triggers no preference refresh.
C2_StaleSessionDiscard ==
    [][\A r \in requests, data \in ChatBodies :
          (r.sid # sessionId /\ ChatJsonResolve(r, data)) =>
              /\ UNCHANGED <<currentRecommendations, recommendationCount,
                             recommendationsContainer, currentPreferences,
                             preferencesContainer>>
              /\ requestsIssued' = requestsIssued]_vars

\* C3: every step in which a send attempt ends leaves isLoading false, and,
\* every fetch and json() of a send settling, isLoading true leads to
\* isLoading false.
C3_FlagCleared ==
    /\ [][\A r \in ChatRequests : Completes(r) => ~isLoading']_vars
    /\ (isLoading ~> ~isLoading)

\* C3 witness: a send has ended in the catch block and the flag is clear
C3_Witness ==
    /\ ~isLoading
    /\ ChatRequests = {}
    /\ Last(chatMessages).message = ApologyText

\* The page and the session as a reset leaves them, the session id a new one
ResetApplied ==
    /\ chatMessages' = <<WelcomeMessage>>
    /\ currentRecommendations' = <<>>
    /\ recommendationCount' = 0
    /\ recommendationsContainer' = <<>>
    /\ preferencesContainer' = NoPreferences
    /\ sessionId' # sessionId
    /\ localStorage' = sessionId'

C5_FailedDeleteReported ==
    [][\A r \in requests :
          /\ (ClearChatResolve(r, FALSE) \/ ClearChatReject(r)) => alerts' = alerts + 1
          /\ (r.op = "clear" /\ Completes(r) /\ sessionId' = sessionId) =>
                 alerts' = alerts + 1]_vars

\* C5 witness: an alert was shown and the conversation is still on the page
C5_Witness ==
    /\ alerts > 0
    /\ sessionId = 1
    /\ Len(chatMessages) > 1

\* C6: when the fetch of a send rejects or answers with a status that is not
\* 2xx, the transcript gains the apology and nothing else, no request is
\* issued (the send issued exactly one), the send control is ready again and
\* the recommendations and preferences are unchanged.
C6_TransportFailure ==
    /\ [][\A r \in requests :
            (ChatFetchReject(r) \/ ChatFetchResolve(r, FALSE)) =>
                /\ chatMessages' = Append(chatMessages, Entry("agent", ApologyText))
                /\ requestsIssued' = requestsIssued
                /\ requests' = requests \ {r}
                /\ ~isLoading' /\ ~sendBtnDisabled' /\ ~typingIndicator'
                /\ UNCHANGED <<currentRecommendations, recommendationCount,
                               recommendationsContainer, currentPreferences,
                               preferencesContainer>>]_vars
    /\ [][\A r \in requests' :
            (r.op = "chat" /\ Issued(r)) => requestsIssued' = requestsIssued + 1]_vars

\* C6 witness: a send failed after an earlier turn had delivered a
\* recommendation, which is still there
C6_Witness ==
    /\ ~isLoading /\ ~sendBtnDisabled
    /\ ChatRequests = {}
    /\ Last(chatMessages) = Entry("agent", ApologyText)
    /\ currentRecommendations = <<RecB, RecA>>
    /\ recommendationCount = 2

\* C7: the step that issues the chat request has appended the user message
\* (which stays visible while the request of the current session is
\* outstanding); a 2xx response with a reply text appends that reply, once,
\* right after what was there; and a turn processed without error appends
\* nothing else.
C7_OptimisticTurn ==
    /\ [](\A r \in ChatRequests :
            r.sid = sessionId =>
                \E i \in 1..Len(chatMessages) : chatMessages[i] = Entry("user", r.message))
    /\ [][\A r \in requests' :
            (r.op = "chat" /\ Issued(r)) =>
                chatMessages' = Append(removeWelcome(chatMessages), Entry("user", r.message))]_vars
    /\ [][\A r \in requests, data \in ChatBodies :
            (ChatJsonResolve(r, data) /\ Has(data, "response")) =>
                /\ Len(chatMessages') > Len(chatMessages)
                /\ SubSeq(chatMessages', 1, Len(chatMessages) + 1)
                       = Append(chatMessages, Entry("agent", data.response))
                /\ Cardinality({i \in (Len(chatMessages) + 1)..Len(chatMessages') :
                                   chatMessages'[i].message = data.response}) = 1
                /\ (sendMessageThrowsAt(data) = "none" =>
                       Len(chatMessages') = Len(chatMessages) + 1)]_vars

\* C7 witness: a finished turn, the user message followed by the reply
C7_Witness ==
    /\ ~isLoading
    /\ Len(chatMessages) = 2
    /\ chatMessages[1] = Entry("user", <<"flat", " ", "London">>)
    /\ chatMessages[2] = Entry("agent", ReplyOne)

\* C8 as claimed: after a chat turn processed without error whose response
\* has a recommendations list, the recommendation set and the badge are that
\* list and its length.
C8_ReplacementTotal ==
    [][\A r \in requests, data \in ChatBodies :
          (/\ ChatJsonResolve(r, data)
           /\ sendMessageThrowsAt(data) = "none"
           /\ Has(data, "recommendations")) =>
              /\ currentRecommendations' = data.recommendations
              /\ recommendationCount' = Len(data.recommendations)]_vars

\* C8 as amended: after a chat turn processed without error whose response
\* has a non-empty recommendations list, the recommendation set, the cards
\* and the badge are exactly that list, in its order, and its length,
\* whatever the set was before.
C8_ReplacementOfNonEmpty ==
    [][\A r \in requests, data \in ChatBodies :
          (/\ ChatJsonResolve(r, data)
           /\ sendMessageThrowsAt(data) = "none"
           /\ hasRecommendations(data)) =>
              /\ currentRecommendations' = data.recommendations
              /\ recommendationCount' = Len(data.recommendations)
              /\ recommendationsContainer' =
                     [i \in 1..Len(data.recommendations) |->
                         cardPropertyId(data.recommendations[i])]]_vars

\* C8 witness: the turn that delivered RecB and RecA was followed by the turn
\* that delivered RecC alone, and RecC alone is the set
C8_Witness ==
    /\ \E i \in 1..Len(chatMessages) :
           /\ i + 2 = Len(chatMessages)
           /\ chatMessages[i].message = ReplyTwo
           /\ chatMessages[i + 1].sender = "user"
           /\ chatMessages[i + 2].message = ReplyText
    /\ currentRecommendations = <<RecC>>
    /\ recommendationCount = 1
    /\ recommendationsContainer = <<"p3">>

\* C9: two calls of getOrCreateSessionId in a row, from the durable key as it
\* is or from an absent key, return the same id and the second leaves the key
\* as the first left it; a call on the page as it is returns the session id
\* and leaves the key; and a reset leaves a session id that differs from the
\* one before it.
C9_IdentityPersistence ==
    /\ [](\A storage \in {localStorage, NoKey} :
            LET first == getOrCreateSessionId(storage, idSource)
                second == getOrCreateSessionId(first.storage, first.source)
            IN  /\ second.id = first.id
                /\ second.storage = first.storage
                /\ first.storage = first.id)
    /\ [](LET got == getOrCreateSessionId(localStorage, idSource)
          IN  got.id = sessionId /\ got.storage = localStorage)
    /\ [][\A r \in requests :
            ClearChatResolve(r, TRUE) => sessionId' # sessionId]_vars

\* C9 witness: the session has been reset twice
C9_Witness == sessionId = 3 /\ localStorage = 3

\* C10: the history fetch of the constructor and every fetch issued later name
\* the session id that is current in the step that issues them.
C10_RequestsCarryCurrentId ==
    /\ \A r \in requests : r.sid = sessionId
    /\ [][\A r \in requests' : Issued(r) => r.sid = sessionId /\ r.sid = sessionId']_vars

\* C10 witness: fetches of both kinds issued after a reset are in flight,
\* beside one that names the session before the reset
C10_Witness ==
    /\ sessionId > 1
    /\ \E r \in requests : r.op = "chat" /\ r.sid = sessionId
    /\ \E r \in requests : r.op # "chat" /\ r.sid # sessionId

\* C11: the session id and the durable key change only in the step in which a
\* confirmed clearChat learns that its DELETE succeeded; sendMessage and its
\* continuations, loadConversationHistory, loadPreferences,
\* showPreferencesModal, showPropertyDetails, hideModal, a declined clearChat
\* and a failed clearChat leave both as they are
C11_IdChangesOnlyOnReset ==
    [][(sessionId' # sessionId \/ localStorage' # localStorage)
           => \E r \in requests : ClearChatResolve(r, TRUE)]_vars

\* C11 witness: a turn completed, a property was opened, a clearChat failed,
\* and the page still has the id and the key it was constructed with
C11_Witness ==
    /\ alerts >= 1
    /\ "propertyModal" \in activeModals
    /\ \E i \in 1..Len(chatMessages) : chatMessages[i].sender = "user"
    /\ sessionId = 1
    /\ localStorage = 1

\* C12: a sendMessage whose input is empty or only whitespace issues no
\* request, leaves the transcript as it is and leaves the send guard (the
\* isLoading flag, the typing indicator, the send button) as it is, so idle
\* when it was idle
C12_BlankInputRejected ==
    [][\A input \in Inputs :
          (trim(input) = <<>> /\ SendMessage(input)) =>
              /\ UNCHANGED <<requests, requestsIssued, chatMessages>>
              /\ UNCHANGED <<isLoading, typingIndicator, sendBtnDisabled>>]_vars

\* C12 witness: the page is idle after a completed turn, no request is in
\* flight, and the whitespace-only input is one sendMessage returns on
C12_Witness ==
    /\ ~isLoading /\ ~typingIndicator /\ ~sendBtnDisabled
    /\ requests = {}
    /\ Len(chatMessages) >= 2
    /\ requestsIssued < MaxRequests
    /\ \E input \in Inputs :
           input # <<>> /\ trim(input) = <<>> /\ sendRejected(trim(input), isLoading)

\* C13: the step in which a confirmed clearChat learns that its DELETE
\* succeeded leaves the transcript equal to the welcome message alone, the
\* recommendation set empty with the badge at 0, and the preference map held
\* in memory empty, not only the preference display
C13_ResetDiscardsAllStores ==
    [][\A r \in requests :
          ClearChatResolve(r, TRUE) =>
              /\ chatMessages' = <<WelcomeMessage>>
              /\ currentRecommendations' = <<>>
              /\ recommendationCount' = 0
              /\ preferencesContainer' = NoPreferences
              /\ currentPreferences' = NoPreferences]_vars

\* The requests this step issues
IssuedNow == {q \in requests' : \A p \in requests : p.id # q.id}

\* C14: a chat turn that ends without the apology issues exactly one
\* preference request, for the current session, when the body carries a
\* non-empty extracted_preferences, and none when the field is absent or
\* empty; in both cases the same step returns the send guard to idle, so the
\* turn does not wait for the refresh
C14_OneRefreshPerExtraction ==
    [][\A r \in requests, data \in ChatBodies :
          (ChatJsonResolve(r, data) /\ Last(chatMessages').message # ApologyText) =>
              /\ IF Has(data, "extracted_preferences") /\ data.extracted_preferences # <<>>
                 THEN /\ Cardinality(IssuedNow) = 1
                      /\ \A q \in IssuedNow : q.op = "preferences" /\ q.sid = sessionId
                 ELSE IssuedNow = {}
              /\ ~isLoading' /\ ~typingIndicator' /\ ~sendBtnDisabled']_vars

\* C14 witness: the turn that extracted a preference is over, the send guard
\* is idle and the preference request it started is still in flight
C14_Witness ==
    /\ Last(chatMessages) = Entry("agent", ReplyOne)
    /\ ~isLoading /\ ~typingIndicator /\ ~sendBtnDisabled
    /\ ChatRequests = {}
    /\ Cardinality({q \in requests : q.op = "preferences"}) = 1

\* The entries of a history that are of the stored kinds, in stored order
StoredEntries(data) ==
    SelectSeq(data.conversations, LAMBDA conv : conv.message_type \in {"user", "agent"})

\* Every stored entry carries the text of its kind
CarriesTexts(data) ==
    \A i \in 1..Len(data.conversations) :
        LET conv == data.conversations[i]
        IN  /\ conv.message_type = "user" => Has(conv, "message")
            /\ conv.message_type = "agent" => Has(conv, "response")

\* The transcript entries the stored entries stand for, in stored order
TranscriptOf(data) ==
    [i \in 1..Len(StoredEntries(data)) |->
        LET conv == StoredEntries(data)[i]
        IN  IF conv.message_type = "user"
            THEN Entry("user", conv.message)
            ELSE Entry("agent", conv.response)]

\* C15: when the history arrives, with entries that carry their texts, the
\* transcript gains the stored user and agent entries in stored order, each
\* under its own sender; the welcome message is removed exactly when the
\* history has entries; and the preference map becomes the snapshot of the
\* history, the empty map when it has none
C15_HistoryReplay ==
    [][\A r \in requests, data \in HistoryBodies :
          (LoadHistoryResolve(r, data) /\ CarriesTexts(data)) =>
              /\ chatMessages' =
                     IF data.conversations = <<>>
                     THEN chatMessages
                     ELSE SelectSeq(chatMessages, LAMBDA m : ~m.welcome)
                              \o TranscriptOf(data)
              /\ currentPreferences' =
                     IF Has(data, "user_preferences")
                     THEN data.user_preferences
                     ELSE NoPreferences]_vars

\* C15 witness: the page shows the replayed history in place of the welcome
\* message and holds the snapshot of the history
C15_Witness ==
    /\ chatMessages = <<Entry("user", UserEntry.message),
                        Entry("agent", AgentEntry.response)>>
    /\ currentPreferences = [location |-> "London"]
    /\ \A q \in requests : q.op # "history"

\* C16: when the history load, a preference refresh or an insights fetch fails
\* (no connection, a status that is not 2xx, a body that is not JSON), the
\* transcript, the recommendation set and its display, the preference map and
\* its display and the displayed insights keep their values, so no message is
\* appended, and no modal is opened, the preferences modal after a failed
\* insights fetch in particular
C16_FailedLoadsKeepStores ==
    [][\A r \in requests, failure \in Failures :
          (\/ LoadHistoryFail(r, failure)
           \/ LoadPreferencesFail(r, failure)
           \/ InsightsFail(r, failure)) =>
              /\ UNCHANGED <<chatMessages, currentRecommendations, recommendationCount,
                             recommendationsContainer, currentPreferences,
                             preferencesContainer, insightsContainer>>
              /\ activeModals' \subseteq activeModals]_vars

\* C16 witness: after the history was replayed the only further request was
\* an insights fetch, which is settled without insights on display: it failed,
\* the replayed transcript and the snapshot are in place and no modal is open
C16_Witness ==
    /\ requestsIssued = 2 /\ requests = {} /\ alerts = 0
    /\ chatMessages = <<Entry("user", UserEntry.message),
                        Entry("agent", AgentEntry.response)>>
    /\ currentPreferences = [location |-> "London"]
    /\ insightsContainer = NoInsights
    /\ activeModals = {}

\* C17: a clearChat whose confirmation is declined issues no request, and
\* leaves the transcript, the recommendation set and its display, the
\* preference map and its display, the session id and the durable key as
\* they are
C17_DeclinedResetIsNoOp ==
    [][ClearChat(FALSE) =>
          /\ UNCHANGED <<requests, requestsIssued>>
          /\ UNCHANGED <<chatMessages, currentRecommendations, recommendationCount,
                         recommendationsContainer, currentPreferences,
                         preferencesContainer, sessionId, localStorage>>]_vars

\* C17 witness: a page with a transcript, recommendations and preferences to
\* lose, no DELETE in flight or answered, and room for the DELETE a confirmed
\* click would issue
C17_Witness ==
    /\ requestsIssued < MaxRequests
    /\ \A q \in requests : q.op # "clear"
    /\ alerts = 0 /\ sessionId = 1 /\ localStorage = 1
    /\ currentRecommendations # <<>>
    /\ currentPreferences # NoPreferences
    /\ \E i \in 1..Len(chatMessages) : ~chatMessages[i].welcome

\* The ids on the cards of the entries of the current set
CurrentIds ==
    {cardPropertyId(currentRecommendations[i]) :
        i \in {j \in 1..Len(currentRecommendations) : currentRecommendations[j] # Null}}

\* C18: in a current set without null entries, showPropertyDetails called
\* with the id on the card of any entry (external_id, else id, of the nested
\* property or of the entry itself) shows the details of that entry and
\* opens the property modal
C18_CardIdResolves ==
    (\A j \in 1..Len(currentRecommendations) : currentRecommendations[j] # Null) =>
        \A i \in 1..Len(currentRecommendations) :
            LET rec == currentRecommendations[i]
                shown == showPropertyDetails(currentRecommendations, cardPropertyId(rec),
                                             propertyDetails, activeModals)
            IN  /\ "propertyModal" \in shown.activeModals
                /\ shown.propertyDetails = propertyDetailsOf(rec)

\* C19: showPropertyDetails called with an id that is on no card of the
\* current set opens no modal and leaves the displayed details as they are
C19_UnknownIdResolvesNothing ==
    [][\A propertyId \in PropertyIds :
          (propertyId \notin CurrentIds /\ ShowPropertyDetails(propertyId)) =>
              UNCHANGED <<activeModals, propertyDetails>>]_vars

\* C19 witness: the details of an entry are still in the dismissed modal, the
\* set that held the entry has been discarded, and its id is on no card
C19_Witness ==
    /\ propertyDetails = propertyDetailsOf(RecA)
    /\ "propertyModal" \notin activeModals
    /\ cardPropertyId(RecA) \notin CurrentIds
    /\ find(currentRecommendations, cardPropertyId(RecA)).found = FALSE

\* The price of the recommendation whose details are shown, NoPrice for none
ShownPrice ==
    IF Has(propertyDetails.property, "price") THEN propertyDetails.property.price
    ELSE NoPrice

\* C20: the price text of the details shown is 'POA' for an absent price and
\* for 0; the amount itself for a price above 0 and below 1,000; for a price
\* from 1,000 and below 1,000,000 a whole number of thousands no more than
\* half a thousand away from the price, with suffix 'k', and 2 for 1,500;
\* for a price from 1,000,000 a number of millions with one decimal digit no
\* more than half a tenth of a million away from the price, with suffix 'M',
\* and 2.3 for 2,300,000
C20_PriceTiers ==
    propertyDetails # NoDetails =>
        LET price == ShownPrice
            text == propertyDetails.price
        IN  /\ (price = NoPrice \/ price = 0) => text = [text |-> "POA"]
            /\ (0 < price /\ price < 1000) =>
                   text = [currency |-> "GBP", amount |-> price]
            /\ (1000 <= price /\ price < 1000000) =>
                   /\ DOMAIN text = {"currency", "thousands", "suffix"}
                   /\ text.currency = "GBP" /\ text.suffix = "k"
                   /\ 2 * (1000 * text.thousands - price) <= 1000
                   /\ 2 * (price - 1000 * text.thousands) <= 1000
                   /\ price = 1500 => text.thousands = 2
            /\ price >= 1000000 =>
                   /\ DOMAIN text = {"currency", "millions", "tenths", "suffix"}
                   /\ text.currency = "GBP" /\ text.suffix = "M"
                   /\ text.tenths \in 0..9
                   /\ 100000 * (10 * text.millions + text.tenths) - price <= 50000
                   /\ price - 100000 * (10 * text.millions + text.tenths) <= 50000
                   /\ price = 2300000 =>
                          text.millions = 2 /\ text.tenths = 3

\* C20 witness: the property modal shows 2.3M for the price 2,300,000
C20_Witness ==
    /\ "propertyModal" \in activeModals
    /\ propertyDetails # NoDetails
    /\ ShownPrice = 2300000
    /\ propertyDetails.price =
           [currency |-> "GBP", millions |-> 2, tenths |-> 3, suffix |-> "M"]

\* C21: the response to a history load or to a preference refresh that was
\* issued under a session id that a reset has since replaced changes neither
\* the transcript nor the preference map and its display
C21_StaleLoadDiscard ==
    [][\A r \in requests :
          (/\ r.sid # sessionId
           /\ \/ \E data \in HistoryBodies : LoadHistoryResolve(r, data)
              \/ \E data \in PreferencesBodies : LoadPreferencesResolve(r, data)) =>
              UNCHANGED <<chatMessages, currentPreferences, preferencesContainer>>]_vars

\* C22: while the response of a chat turn has arrived and its body is still
\* to be processed the send guard is up, and a sendMessage is accepted (it
\* issues a chat request) only in a state with no chat request outstanding in
\* either phase, so the agent message and the recommendation replacement of
\* every earlier turn have been applied by then
C22_ReplacementBeforeNextSend ==
    /\ [](\A r \in ChatRequests : r.phase = "json" => isLoading)
    /\ [][(\E q \in requests' : q.op = "chat" /\ Issued(q)) => ChatRequests = {}]_vars

\* C22 witness: the second send has been accepted, and the reply and the two
\* recommendations of the first turn are in place
C22_Witness ==
    /\ Cardinality(ChatRequests) = 1
    /\ Len(chatMessages) = 3
    /\ chatMessages[2] = Entry("agent", ReplyTwo)
    /\ chatMessages[3].sender = "user"
    /\ currentRecommendations = <<RecB, RecA>>
    /\ recommendationsContainer = <<"p2", "p1">>

\* The messages of a transcript other than the welcome message
Appended(chat) == SelectSeq(chat, LAMBDA m : ~m.welcome)

\* C23: in every step other than the one in which a clearChat learns that its
\* DELETE succeeded, the messages appended so far stay in the transcript,
\* unchanged and in their order, as a prefix of the messages appended after
\* the step; only the welcome message can go
C23_AppendOnly ==
    [][(~\E r \in requests : ClearChatResolve(r, TRUE)) =>
          /\ Len(Appended(chatMessages)) <= Len(Appended(chatMessages'))
          /\ SubSeq(Appended(chatMessages'), 1, Len(Appended(chatMessages)))
                 = Appended(chatMessages)]_vars

\* C23 witness: the replayed history, then the user message of a send and
\* the apology of its failure, all in place without the welcome message
C23_Witness ==
    /\ chatMessages = <<Entry("user", UserEntry.message),
                        Entry("agent", AgentEntry.response),
                        Entry("user", <<"flat", " ", "London">>),
                        Entry("agent", ApologyText)>>

\* C24: when a preference refresh succeeds, the preference map and its
\* display are exactly the map of the answer; when the history load succeeds
\* they are exactly the snapshot of the answer, empty when it has none; no
\* category of the previous map stays unless the answer has it
C24_PreferencesReplacedWholesale ==
    [][\A r \in requests :
          /\ \A data \in PreferencesBodies :
                 LoadPreferencesResolve(r, data) =>
                     /\ currentPreferences' = data.preferences
                     /\ DOMAIN currentPreferences' = DOMAIN data.preferences
                     /\ preferencesContainer' = data.preferences
          /\ \A data \in HistoryBodies :
                 (LoadHistoryResolve(r, data) /\ CarriesTexts(data)) =>
                     LET snapshot == IF Has(data, "user_preferences")
                                     THEN data.user_preferences
                                     ELSE NoPreferences
                     IN  /\ DOMAIN currentPreferences' = DOMAIN snapshot
                         /\ preferencesContainer' = snapshot
                         /\ currentPreferences' = preferencesContainer']_vars

\* C24 witness: the history was replayed with its snapshot (location) before
\* the first send, and the refresh after that turn left a map with budget
\* and bedrooms and without location
C24_Witness ==
    /\ chatMessages # <<>>
    /\ Head(chatMessages) = Entry("user", UserEntry.message)
    /\ requests = {}
    /\ currentPreferences = [budget |-> "500k", bedrooms |-> "2"]
    /\ "location" \notin DOMAIN currentPreferences
    /\ preferencesContainer = currentPreferences

\* C25: the ids on the cards of the current recommendation set are pairwise
\* distinct in every reachable state
C25_UniquePropertyIds ==
    \A i, j \in 1..Len(currentRecommendations) :
        (/\ i # j
         /\ currentRecommendations[i] # Null
         /\ currentRecommendations[j] # Null) =>
            cardPropertyId(currentRecommendations[i])
                # cardPropertyId(currentRecommendations[j])

\* C26: a chat turn that ends without the apology and whose body has no
\* recommendations field, or an empty recommendations list, leaves the
\* current set, the cards and their order and the count badge as they were
C26_NoRecommendationsNoChange ==
    [][\A r \in requests, data \in ChatBodies :
          (/\ ChatJsonResolve(r, data)
           /\ Last(chatMessages').message # ApologyText
           /\ (~Has(data, "recommendations") \/ data.recommendations = <<>>)) =>
              UNCHANGED <<currentRecommendations, recommendationsContainer,
                          recommendationCount>>]_vars

\* C26 witness: the turn after the one that delivered RecB and RecA brought a
\* reply without recommendations, and the two are still the set
C26_Witness ==
    /\ Len(chatMessages) = 4
    /\ chatMessages[2] = Entry("agent", ReplyTwo)
    /\ chatMessages[4] = Entry("agent", ReplyText)
    /\ ~isLoading
    /\ currentRecommendations = <<RecB, RecA>>
    /\ recommendationsContainer = <<"p2", "p1">>
    /\ recommendationCount = 2

\* C27: when the handler of a send that was issued under a session id that a
\* reset has since replaced runs to its end, with a reply or with a failure,
\* it appends nothing: the transcript stays as the reset and the sends of the
\* new session left it
C27_StaleSendAppendsNothing ==
    [][\A r \in ChatRequests :
          (r.sid # sessionId /\ Completes(r)) => UNCHANGED chatMessages]_vars

\* C28: at most one modal is active, in particular after the step in which
\* the insights of showPreferencesModal arrive, whatever was opened while the
\* fetch was outstanding
C28_SingleModal ==
    [][\A r \in requests, data \in InsightsBodies :
          InsightsResolve(r, data) => Cardinality(activeModals') <= 1]_vars

\* C29: in every reachable state the count badge shows the number of entries
\* of the current recommendation set
C29_BadgeIsSetSize ==
    recommendationCount = Len(currentRecommendations)

\* C29 witness: the turn that delivered two recommendations has just ended
\* and the badge shows 2
C29_Witness ==
    /\ Last(chatMessages) = Entry("agent", ReplyTwo)
    /\ Len(currentRecommendations) = 2
    /\ recommendationCount = 2

\* C30: when the history of the current session arrives with entries that
\* carry their texts, the replayed entries come first in the transcript,
\* before every message that a sendMessage has appended, also when a message
\* was sent before the history arrived
C30_HistoryBeforeSends ==
    [][\A r \in requests, data \in HistoryBodies :
          (/\ LoadHistoryResolve(r, data)
           /\ CarriesTexts(data)
           /\ r.sid = sessionId) =>
              Appended(chatMessages') = TranscriptOf(data) \o Appended(chatMessages)]_vars

\* The preference maps the page can hold without a refresh having answered:
\* the empty map of the constructor and the snapshots of the histories
MapsWithoutRefresh ==
    {NoPreferences} \cup
        {data.user_preferences : data \in {d \in HistoryBodies : Has(d, "user_preferences")}}

\* C31: when the preference loads that were outstanding together have all
\* completed, the preference map is the answer to the one issued last. The
\* history load is the first request of the page, so when its answer is the
\* last to arrive and the map already holds the answer of a refresh, the map
\* stays as that refresh left it
C31_LatestIssuedLoadWins ==
    [][\A r \in requests, data \in HistoryBodies :
          (/\ LoadHistoryResolve(r, data)
           /\ CarriesTexts(data)
           /\ r.sid = sessionId
           /\ currentPreferences \notin MapsWithoutRefresh
           /\ \A q \in requests' : q.op # "preferences") =>
              currentPreferences' = currentPreferences]_vars

\* C32: in the step in which a clearChat learns that its DELETE succeeded and
\* resets the page, the session id it abandons is the one its DELETE named
C32_ResetAbandonsDeletedSession ==
    [][\A r \in requests : ClearChatResolve(r, TRUE) => r.sid = sessionId]_vars

\* C33: whenever the property modal is active, the property whose details it
\* shows is the property of an entry of the current recommendation set
C33_ShownPropertyIsCurrent ==
    "propertyModal" \in activeModals =>
        \E i \in 1..Len(currentRecommendations) :
            /\ currentRecommendations[i] # Null
            /\ propertyDetails = propertyDetailsOf(currentRecommendations[i])

\* C34: the step in which the handler of a send runs to its end appends
\* exactly one message, an agent message that is the reply or the apology;
\* and when it is the apology, the recommendation set, its cards and the
\* badge are as they were before the step
C34_OneAgentMessagePerSend ==
    [][\A r \in ChatRequests :
          Completes(r) =>
              /\ Len(chatMessages') = Len(chatMessages) + 1
              /\ SubSeq(chatMessages', 1, Len(chatMessages)) = chatMessages
              /\ Last(chatMessages').sender = "agent"
              /\ Last(chatMessages').message = ApologyText =>
                     UNCHANGED <<currentRecommendations, recommendationCount,
                                 recommendationsContainer>>]_vars

\* C35: in every reachable state the durable key is present and its value is
\* the session id the page holds in memory and names in its requests
C35_KeyIsSessionId ==
    localStorage # NoKey /\ localStorage = sessionId

\* C35 witness: a reset has just rotated the id while the history request of
\* the abandoned session is still in flight, and key and id agree on the new id
C35_Witness ==
    /\ sessionId = 2 /\ localStorage = 2
    /\ chatMessages = <<WelcomeMessage>>
    /\ \E r \in requests : r.op = "history" /\ r.sid = 1

\* The transcript has the welcome message
HasWelcome(chat) == \E i \in 1..Len(chat) : chat[i].welcome

\* C36: in every reachable state the transcript does not hold the welcome
\* message together with a user message, and a step that puts the welcome
\* message into a transcript without it leaves it as the only message
C36_WelcomeNeverWithUserMessage ==
    /\ [](~(/\ HasWelcome(chatMessages)
            /\ \E i \in 1..Len(chatMessages) : chatMessages[i].sender = "user"))
    /\ [][(HasWelcome(chatMessages') /\ ~HasWelcome(chatMessages)) =>
              chatMessages' = <<WelcomeMessage>>]_vars

\* C36 witness: a reset re-seeded the welcome message and the first user
\* message of the new session has removed it again
C36_Witness ==
    /\ sessionId = 2
    /\ chatMessages = <<Entry("user", <<"flat", " ", "London">>)>>
    /\ isLoading

\* C37: in every reachable state isLoading, the display of the typing
\* indicator and the disabled state of the send button have the same value
C37_GuardIndicatorButtonAgree ==
    /\ isLoading = typingIndicator
    /\ isLoading = sendBtnDisabled

\* C37 witness: a reset has completed while a send is outstanding, and the
\* flag, the indicator and the button are all still up
C37_Witness ==
    /\ sessionId = 2
    /\ chatMessages = <<WelcomeMessage>>
    /\ \E r \in ChatRequests : r.sid = 1
    /\ isLoading /\ typingIndicator /\ sendBtnDisabled

\* C38: for a price from 1,000 and below 1,000,000 the number shown before
\* the suffix 'k' is between 1 and 999
C38_ThousandsBelowOneThousand ==
    (/\ propertyDetails # NoDetails
     /\ 1000 <= ShownPrice
     /\ ShownPrice < 1000000) =>
        /\ Has(propertyDetails.price, "thousands")
        /\ propertyDetails.price.thousands \in 1..999

====
